---- MODULE Spec2Model ----
(***************************************************************************)
(* Model of tensorpack/dataflow/imgaug/transform.py: the Transform classes *)
(* and the calls several threads make on one shared TransformList.         *)
(*                                                                         *)
(* Numbers held in coordinate arrays are exact rationals <<n, d>> (d > 0,  *)
(* lowest terms); an array of integer dtype truncates on assignment, as a  *)
(* numpy array does.  Images are 2-D grids of integer pixel labels with    *)
(* their ndim (2, or 3 for a single channel axis).                         *)
(***************************************************************************)
EXTENDS Integers, Sequences, FiniteSets, TLC

VARIABLES tfms, pc, meth, arg, inbuf, x, i, prev, res

vars == <<tfms, pc, meth, arg, inbuf, x, i, prev, res>>

\* Longest child sequence a TransformList is built from.
MaxChildren == 2

\* The threads calling into the one shared TransformList.
Threads == {1, 2}

-----------------------------------------------------------------------------
(* Exact arithmetic on array elements *)

Abs(n) == IF n < 0 THEN -n ELSE n

RECURSIVE GCD(_, _)
GCD(a, b) == IF b = 0 THEN a ELSE GCD(b, a % b)

Norm(n, d) ==
    LET g == GCD(Abs(n), d)
    IN  IF n = 0 THEN <<0, 1>> ELSE <<n \div g, d \div g>>

Rat(n) == <<n, 1>>

IsInt(q) == q[2] = 1

\* q * (a * 1.0 / b), a float product computed exactly
RScale(q, a, b) == Norm(q[1] * a, q[2] * b)

\* q - n and n - q for an integer n
RSubInt(q, n) == Norm(q[1] - n * q[2], q[2])

IntSubR(n, q) == Norm(n * q[2] - q[1], q[2])

RAddInt(q, n) == Norm(q[1] + n * q[2], q[2])

RMulInt(q, n) == Norm(q[1] * n, q[2])

RAdd(p, q) == Norm(p[1] * q[2] + q[1] * p[2], p[2] * q[2])

\* the C cast float -> int numpy applies when a float is stored in an int array
Trunc(q) ==
    IF q[1] >= 0 THEN Rat(q[1] \div q[2]) ELSE Rat(-((-q[1]) \div q[2]))

\* what an array of the given dtype holds after `a[...] = q`
Store(dtype, q) == IF dtype = "int" THEN Trunc(q) ELSE q

-----------------------------------------------------------------------------
(* Values passed to and returned by apply_* *)

\* A coordinate array: N points (x, y).  view says whose memory it is:
\*   "arg"  the caller's array (or a view of it with the columns in place),
\*   "rev"  a view of the caller's array with the two columns reversed,
\*   "new"  an array allocated during the call.
Coords(dtype, pts, view) ==
    [kind |-> "coords", dtype |-> dtype, pts |-> pts, view |-> view]

Image(ndim, h, w, px) ==
    [kind |-> "img", ndim |-> ndim, h |-> h, w |-> w, px |-> px]

\* An exception: its type, its arguments, and the innermost frame of its
\* traceback as <<class, function>>.
Raise(type, args, frame) ==
    [kind |-> "exc", type |-> type, args |-> args, frame |-> frame]

IsExc(v) == v.kind = "exc"

SwapPts(pts) == [k \in 1..Len(pts) |-> <<pts[k][2], pts[k][1]>>]

\* The contents of the caller's array, read through a value that aliases it.
Underlying(v) == IF v.view = "rev" THEN SwapPts(v.pts) ELSE v.pts

-----------------------------------------------------------------------------
(* Objects: a class name and the instance dictionary *)

Obj(cls, dict) == [cls |-> cls, dict |-> dict]

NoAttrs == [k \in {} |-> 0]

\* Capability names callers ask for ("apply_mask" stands for the open apply_* set).
ApplyNames == {"apply_image", "apply_coords", "apply_mask"}

\* name.startswith("apply_")
StartsWithApply(name) == name \in ApplyNames

\* name.startswith('_')
StartsWithUnderscore(name) == name \in {"__class__", "_tfms", "_name", "_init", "_apply"}

\* Transform._init: setattr(self, k, v) for every k of params but 'self' and '_...'
Transform_init(self, params) ==
    LET keep == {k \in DOMAIN params : k # "self" /\ ~StartsWithUnderscore(k)}
    IN  Obj(self.cls, [k \in keep |-> params[k]] @@ self.dict)

Transform == Obj("Transform", NoAttrs)

NoOpTransform == Obj("NoOpTransform", NoAttrs)

TransposeTransform == Obj("TransposeTransform", NoAttrs)

ResizeTransform(h, w, new_h, new_w, interp) ==
    Transform_init(Obj("ResizeTransform", NoAttrs),
                   [self |-> "self", h |-> h, w |-> w, new_h |-> new_h,
                    new_w |-> new_w, interp |-> interp,
                    __class__ |-> "ResizeTransform"])

CropTransform(y0, x0, h, w) ==
    Transform_init(Obj("CropTransform", NoAttrs),
                   [self |-> "self", y0 |-> y0, x0 |-> x0, h |-> h, w |-> w,
                    __class__ |-> "CropTransform"])

WarpAffineTransform(mat, dsize, interp, borderMode, borderValue) ==
    Transform_init(Obj("WarpAffineTransform", NoAttrs),
                   [self |-> "self", mat |-> mat, dsize |-> dsize,
                    interp |-> interp, borderMode |-> borderMode,
                    borderValue |-> borderValue,
                    __class__ |-> "WarpAffineTransform"])

FlipTransform(h, w, horiz) ==
    Transform_init(Obj("FlipTransform", NoAttrs),
                   [self |-> "self", h |-> h, w |-> w, horiz |-> horiz])

\* TransformFactory.__init__: keeps the kwargs named apply_*, then sets _name
TransformFactory(name, kwargs) ==
    LET keep == {k \in DOMAIN kwargs : StartsWithApply(k)}
    IN  Obj("TransformFactory",
            [_name |-> name] @@ [k \in keep |-> kwargs[k]])

\* TransformList.__init__: asserts every element is a Transform, keeps the list
IsTransform(t) ==
    t.cls \in {"Transform", "TransformList", "NoOpTransform", "ResizeTransform",
               "CropTransform", "WarpAffineTransform", "FlipTransform",
               "TransposeTransform", "TransformFactory"}

TransformList(ts) == Obj("TransformList", [_tfms |-> ts])

-----------------------------------------------------------------------------
(* Attribute lookup *)

\* The names each class body defines.
Methods(cls) ==
    CASE cls = "Transform" -> {"_init", "apply_image", "apply_coords"}
      [] cls = "TransformList" ->
            {"__init__", "_apply", "__getattr__", "apply_image", "apply_coords"}
      [] cls = "NoOpTransform" -> {"__getattr__", "apply_image", "apply_coords"}
      [] cls = "TransposeTransform" -> {"apply_image", "apply_coords"}
      [] cls = "TransformFactory" -> {"__init__", "__str__"}
      [] OTHER -> {"__init__", "apply_image", "apply_coords"}

\* Classes whose body defines __getattr__ (called when normal lookup fails).
DefinesGetattr(cls) == "__getattr__" \in Methods(cls)

\* A lookup that lets the class and its base shadow the instance dictionary.
GetAttrClassFirst(obj, name) ==
    IF name \in Methods(obj.cls)
      THEN [kind |-> "method", owner |-> obj.cls, name |-> name]
    ELSE IF name \in Methods("Transform")
      THEN [kind |-> "method", owner |-> "Transform", name |-> name]
    ELSE IF name \in DOMAIN obj.dict
      THEN [kind |-> "attr", value |-> obj.dict[name]]
    ELSE IF DefinesGetattr(obj.cls)
      THEN IF StartsWithApply(name)
             THEN [kind |-> "lambda", owner |-> obj.cls, name |-> name]
             ELSE Raise("AttributeError", <<"TransformList", name>>,
                        <<obj.cls, "__getattr__">>)
    ELSE Raise("AttributeError", <<obj.cls, name>>, <<"TransformList", "_apply">>)

\* getattr(obj, name): the instance dictionary, then the class, then the base
\* class Transform, then the class's __getattr__, else AttributeError.
GetAttr(obj, name) ==
    IF name \in DOMAIN obj.dict
      THEN [kind |-> "attr", value |-> obj.dict[name]]
    ELSE IF name \in Methods(obj.cls)
      THEN [kind |-> "method", owner |-> obj.cls, name |-> name]
    ELSE IF name \in Methods("Transform")
      THEN [kind |-> "method", owner |-> "Transform", name |-> name]
    ELSE IF DefinesGetattr(obj.cls)
      THEN IF StartsWithApply(name)
             THEN [kind |-> "lambda", owner |-> obj.cls, name |-> name]
             ELSE Raise("AttributeError", <<"TransformList", name>>,
                        <<obj.cls, "__getattr__">>)
    ELSE Raise("AttributeError", <<obj.cls, name>>, <<"TransformList", "_apply">>)

-----------------------------------------------------------------------------
(* Array primitives the methods use *)

\* numpy's a[lo:hi] on an axis of length n: negative bounds count from the
\* end, both are clamped to the axis; the 0-based half-open range kept.
SliceBound(b, n) ==
    IF b < 0 THEN (IF b + n < 0 THEN 0 ELSE b + n)
             ELSE (IF b > n THEN n ELSE b)

SliceLo(lo, hi, n) == SliceBound(lo, n)

SliceLen(lo, hi, n) ==
    LET a == SliceBound(lo, n)
        b == SliceBound(hi, n)
    IN  IF b > a THEN b - a ELSE 0

\* img[y0:y1, x0:x1]
SliceImage(img, y0, y1, x0, x1) ==
    LET r0 == SliceLo(y0, y1, img.h)
        nh == SliceLen(y0, y1, img.h)
        c0 == SliceLo(x0, x1, img.w)
        nw == SliceLen(x0, x1, img.w)
    IN  Image(img.ndim, nh, nw,
              [r \in 1..nh |-> [c \in 1..nw |-> img.px[r0 + r][c0 + c]]])

\* img[:, ::-1] and img[::-1]
ReverseCols(img) ==
    Image(img.ndim, img.h, img.w,
          [r \in 1..img.h |-> [c \in 1..img.w |-> img.px[r][img.w + 1 - c]]])

ReverseRows(img) ==
    Image(img.ndim, img.h, img.w,
          [r \in 1..img.h |-> [c \in 1..img.w |-> img.px[img.h + 1 - r][c]]])

\* cv2 returns a 2-D array for an image with one channel
cv2_transpose(img) ==
    Image(2, img.w, img.h,
          [r \in 1..img.w |-> [c \in 1..img.h |-> img.px[c][r]]])

\* cv2.resize(img, (new_w, new_h), interpolation=INTER_NEAREST): the
\* destination pixel (r, c) is the source pixel (floor(r*h/new_h), floor(c*w/new_w))
cv2_resize(img, new_w, new_h, interp) ==
    Image(2, new_h, new_w,
          [r \in 1..new_h |-> [c \in 1..new_w |->
              img.px[((r - 1) * img.h) \div new_h + 1]
                    [((c - 1) * img.w) \div new_w + 1]]])

\* cv2.warpAffine(img, M, (W, H)) for a matrix with integer entries and
\* determinant 1 or -1: the destination pixel (x, y) is the source pixel
\* M^-1 (x, y), or borderValue when that lies outside the source.
cv2_warpAffine(img, mat, dsize, borderValue) ==
    LET a == mat[1][1]
        b == mat[1][2]
        c == mat[2][1]
        d == mat[2][2]
        det == a * d - b * c
        sx(u, v) == det * (d * (u - mat[1][3]) - b * (v - mat[2][3]))
        sy(u, v) == det * (a * (v - mat[2][3]) - c * (u - mat[1][3]))
        inside(u, v) == u >= 0 /\ u < img.w /\ v >= 0 /\ v < img.h
    IN  Image(2, dsize[2], dsize[1],
              [r \in 1..dsize[2] |-> [cc \in 1..dsize[1] |->
                  IF inside(sx(cc - 1, r - 1), sy(cc - 1, r - 1))
                    THEN img.px[sy(cc - 1, r - 1) + 1][sx(cc - 1, r - 1) + 1]
                    ELSE borderValue]])

\* if img.ndim == 3 and ret.ndim == 2: ret = ret[:, :, np.newaxis]
RestoreChannel(img, ret) ==
    IF img.ndim = 3 /\ ret.ndim = 2 THEN [ret EXCEPT !.ndim = 3] ELSE ret

\* coords[:, 0] and coords[:, 1]
Col0(coords) == [k \in 1..Len(coords.pts) |-> coords.pts[k][1]]

Col1(coords) == [k \in 1..Len(coords.pts) |-> coords.pts[k][2]]

\* coords[:, 0] = c0 and coords[:, 1] = c1, in place: the array keeps its
\* dtype and its memory.
AssignCols(coords, c0, c1) ==
    [coords EXCEPT !.pts =
        [k \in 1..Len(coords.pts) |->
            <<Store(coords.dtype, c0[k]), Store(coords.dtype, c1[k])>>]]

-----------------------------------------------------------------------------
(* The methods.  Each gives the object after the call and what the call    *)
(* returns or raises.                                                      *)

Outcome(self, ret) == [self |-> self, ret |-> ret]

Transform_apply_image(self, img) ==
    Outcome(self, Raise("NotImplementedError", <<self.cls>>,
                        <<"Transform", "apply_image">>))

Transform_apply_coords(self, coords) ==
    Outcome(self, Raise("NotImplementedError", <<>>,
                        <<"Transform", "apply_coords">>))

\* A NoOpTransform whose __getattr__ answers no apply_* name.
NoOpTransform_getattrRefusing(self, v) ==
    Outcome(self, Raise("AttributeError", <<"TransformList", "apply_">>,
                        <<self.cls, "__getattr__">>))

NoOpTransform_getattr(self, v) == Outcome(self, v)

NoOpTransform_apply_image(self, img) == Outcome(self, img)

NoOpTransform_apply_coords(self, coords) == Outcome(self, coords)

ResizeTransform_apply_image(self, img) ==
    IF <<img.h, img.w>> # <<self.dict.h, self.dict.w>>
      THEN Outcome(self, Raise("AssertionError", <<>>,
                          <<"ResizeTransform", "apply_image">>))
      ELSE Outcome(self,
             RestoreChannel(img, cv2_resize(img, self.dict.new_w,
                                            self.dict.new_h, self.dict.interp)))

ResizeTransform_apply_coords(self, coords) ==
    LET c0 == [k \in 1..Len(coords.pts) |->
                  RScale(Col0(coords)[k], self.dict.new_w, self.dict.w)]
        c1 == [k \in 1..Len(coords.pts) |->
                  RScale(Col1(coords)[k], self.dict.new_h, self.dict.h)]
    IN  Outcome(self, AssignCols(coords, c0, c1))

CropTransform_apply_image(self, img) ==
    Outcome(self, SliceImage(img, self.dict.y0, self.dict.y0 + self.dict.h,
                             self.dict.x0, self.dict.x0 + self.dict.w))

\* A crop that keeps the array it processed last.
CropTransform_apply_coordsKeeping(self, coords) ==
    LET c0 == [k \in 1..Len(coords.pts) |-> RSubInt(Col0(coords)[k], self.dict.x0)]
        c1 == [k \in 1..Len(coords.pts) |-> RSubInt(Col1(coords)[k], self.dict.y0)]
    IN  Outcome(Obj(self.cls, [last |-> AssignCols(coords, c0, c1)] @@ self.dict),
                AssignCols(coords, c0, c1))

CropTransform_apply_coords(self, coords) ==
    LET c0 == [k \in 1..Len(coords.pts) |-> RSubInt(Col0(coords)[k], self.dict.x0)]
        c1 == [k \in 1..Len(coords.pts) |-> RSubInt(Col1(coords)[k], self.dict.y0)]
    IN  Outcome(self, AssignCols(coords, c0, c1))

WarpAffineTransform_apply_image(self, img) ==
    Outcome(self,
        RestoreChannel(img, cv2_warpAffine(img, self.dict.mat, self.dict.dsize,
                                           self.dict.borderValue)))

\* np.concatenate with a float column, then np.dot: a new float array
WarpAffineTransform_apply_coords(self, coords) ==
    LET m == self.dict.mat
        row(p, r) == RAdd(RAdd(RMulInt(p[1], m[r][1]), RMulInt(p[2], m[r][2])),
                          Rat(m[r][3]))
    IN  Outcome(self,
          Coords("float",
                 [k \in 1..Len(coords.pts) |->
                     <<row(coords.pts[k], 1), row(coords.pts[k], 2)>>],
                 "new"))

FlipTransform_apply_image(self, img) ==
    IF self.dict.horiz THEN Outcome(self, ReverseCols(img))
                       ELSE Outcome(self, ReverseRows(img))

FlipTransform_apply_coords(self, coords) ==
    LET c0 == [k \in 1..Len(coords.pts) |-> IntSubR(self.dict.w, Col0(coords)[k])]
        c1 == [k \in 1..Len(coords.pts) |-> IntSubR(self.dict.h, Col1(coords)[k])]
    IN  IF self.dict.horiz
          THEN Outcome(self, AssignCols(coords, c0, Col1(coords)))
          ELSE Outcome(self, AssignCols(coords, Col0(coords), c1))

TransposeTransform_apply_image(self, img) ==
    Outcome(self, RestoreChannel(img, cv2_transpose(img)))

\* coords[:, ::-1]: a view of the same memory with the columns reversed
TransposeTransform_apply_coords(self, coords) ==
    Outcome(self,
        [coords EXCEPT !.pts = SwapPts(coords.pts),
                       !.view = CASE coords.view = "arg" -> "rev"
                                  [] coords.view = "rev" -> "arg"
                                  [] OTHER -> "new"])

-----------------------------------------------------------------------------
(* Calling a capability on a child *)

\* The callables a caller hands to TransformFactory:
\*   "keep"   lambda x: x
\*   "shift"  lambda x: x + 1    (a new array of the same dtype and shape)
CallFn(fn, v) ==
    IF fn = "keep" THEN v
    ELSE IF v.kind = "img"
      THEN Image(v.ndim, v.h, v.w,
                 [r \in 1..v.h |-> [c \in 1..v.w |-> v.px[r][c] + 1]])
      ELSE Coords(v.dtype,
                  [k \in 1..Len(v.pts) |->
                      <<RAddInt(v.pts[k][1], 1), RAddInt(v.pts[k][2], 1)>>],
                  "new")

\* getattr(t, meth)(x)
Invoke(t, name, v) ==
    LET m == GetAttr(t, name)
    IN  CASE m.kind = "exc" -> Outcome(t, m)
          [] m.kind = "attr" -> Outcome(t, CallFn(m.value, v))
          [] m.kind = "lambda" -> NoOpTransform_getattr(t, v)
          [] m.kind = "method" /\ m.owner = "Transform" ->
                IF name = "apply_image" THEN Transform_apply_image(t, v)
                                        ELSE Transform_apply_coords(t, v)
          [] m.kind = "method" /\ m.owner = "NoOpTransform" ->
                IF name = "apply_image" THEN NoOpTransform_apply_image(t, v)
                                        ELSE NoOpTransform_apply_coords(t, v)
          [] m.kind = "method" /\ m.owner = "ResizeTransform" ->
                IF name = "apply_image" THEN ResizeTransform_apply_image(t, v)
                                        ELSE ResizeTransform_apply_coords(t, v)
          [] m.kind = "method" /\ m.owner = "CropTransform" ->
                IF name = "apply_image" THEN CropTransform_apply_image(t, v)
                                        ELSE CropTransform_apply_coords(t, v)
          [] m.kind = "method" /\ m.owner = "WarpAffineTransform" ->
                IF name = "apply_image" THEN WarpAffineTransform_apply_image(t, v)
                                        ELSE WarpAffineTransform_apply_coords(t, v)
          [] m.kind = "method" /\ m.owner = "FlipTransform" ->
                IF name = "apply_image" THEN FlipTransform_apply_image(t, v)
                                        ELSE FlipTransform_apply_coords(t, v)
          [] m.kind = "method" /\ m.owner = "TransposeTransform" ->
                IF name = "apply_image" THEN TransposeTransform_apply_image(t, v)
                                        ELSE TransposeTransform_apply_coords(t, v)

-----------------------------------------------------------------------------
(* Inputs *)

\* A 2 x 3 image whose pixel at row r, column c is labelled 10 r + c.
Img1 == Image(2, 2, 3, <<<<11, 12, 13>>, <<21, 22, 23>>>>)

\* A 2 x 3 x 1 mask.
Mask1 == Image(3, 2, 3, <<<<0, 1, 0>>, <<1, 1, 0>>>>)

\* Three pixel positions (x, y) of a 2 x 3 image in an integer array ...
CoordsInt ==
    Coords("int",
           <<<<Rat(0), Rat(0)>>, <<Rat(1), Rat(0)>>, <<Rat(2), Rat(1)>>>>,
           "arg")

\* ... and, in a float array, two pixel positions and the point (1/2, 3/2)
\* between pixels.
CoordsFloat ==
    Coords("float",
           <<<<Rat(1), Rat(1)>>, <<Rat(2), Rat(0)>>, << <<1, 2>>, <<3, 2>> >>>>,
           "arg")

ArgsFor(m) ==
    CASE m = "apply_image" -> {Img1}
      [] m = "apply_coords" -> {CoordsInt, CoordsFloat}
      [] m = "apply_mask" -> {Mask1}

\* The keyword arguments two TransformFactory objects are built from: a
\* lightness shift that leaves coordinates alone, and a mask-only transform
\* (its keyword gain is not a capability name).
LightKwargs == [apply_image |-> "shift", apply_coords |-> "keep"]

MaskKwargs == [apply_mask |-> "shift", gain |-> "keep"]

\* The transforms a policy hands over as children.
Candidates ==
    { Transform,
      NoOpTransform,
      ResizeTransform(2, 3, 3, 2, "INTER_NEAREST"),
      ResizeTransform(3, 2, 2, 3, "INTER_NEAREST"),
      CropTransform(0, 1, 2, 2),
      CropTransform(0, 0, 3, 4),
      WarpAffineTransform(<<<<1, 0, 1>>, <<0, 1, 0>>>>, <<3, 2>>,
                          "INTER_LINEAR", "BORDER_CONSTANT", 0),
      FlipTransform(2, 3, TRUE),
      FlipTransform(2, 3, FALSE),
      TransposeTransform,
      TransformFactory("light", LightKwargs),
      TransformFactory("", MaskKwargs) }

RECURSIVE SeqsUpTo(_, _)
SeqsUpTo(S, n) ==
    IF n = 0 THEN {<<>>}
    ELSE LET shorter == SeqsUpTo(S, n - 1)
         IN  shorter \cup {Append(q, e) : q \in shorter, e \in S}

None == [kind |-> "none"]

-----------------------------------------------------------------------------
(* The calls.  tfms is the shared TransformList's _tfms; each thread t runs *)
(* TransformList._apply(x, meth) on its own argument.                       *)
(*   arg[t]    the argument as it was when the call was made                *)
(*   inbuf[t]  the caller's array as it is now                              *)
(*   x[t], i[t]  the loop variable x and the index of the next child        *)
(*   prev[t]   the value handed to the child called last                    *)

Init ==
    /\ tfms \in {ts \in SeqsUpTo(Candidates, MaxChildren) :
                    \A k \in 1..Len(ts) : IsTransform(ts[k])}
    /\ pc = [t \in Threads |-> "idle"]
    /\ meth = [t \in Threads |-> "apply_image"]
    /\ arg = [t \in Threads |-> None]
    /\ inbuf = [t \in Threads |-> None]
    /\ x = [t \in Threads |-> None]
    /\ i = [t \in Threads |-> 1]
    /\ prev = [t \in Threads |-> None]
    /\ res = [t \in Threads |-> None]

\* A loop that walks the children last to first.
ChildAtReversed(ts, k) == ts[Len(ts) + 1 - k]

\* for t in self._tfms: the child the loop reaches k-th
ChildAt(ts, k) == ts[k]

\* A loop variable kept on the shared object: every frame reads one slot.
LocalShared(t) == x[CHOOSE u \in Threads : pc[u] = "loop"]

\* x is a local of the frame of _apply
Local(t) == x[t]

\* The caller's array after a child returned ret: a child that works in
\* place, or returns a view, returns the caller's memory.
Written(buf, ret) ==
    IF buf.kind = "coords" /\ ret.kind = "coords" /\ ret.view # "new"
      THEN [buf EXCEPT !.pts = Underlying(ret)]
      ELSE buf

\* The list once a call on its element c has left that object as c2
\* (the list holds references: the object changes wherever it is held).
Mutated(ts, c, c2) == [k \in 1..Len(ts) |-> IF ts[k] = c THEN c2 ELSE ts[k]]

\* tl.apply_image(a), tl.apply_coords(a), or tl.apply_<m>(a) through
\* __getattr__: _apply starts with x = a
Call(t, m, a) ==
    /\ pc[t] = "idle"
    /\ GetAttr(TransformList(tfms), m).kind \in {"method", "lambda"}
    /\ pc' = [pc EXCEPT ![t] = "loop"]
    /\ meth' = [meth EXCEPT ![t] = m]
    /\ arg' = [arg EXCEPT ![t] = a]
    /\ inbuf' = [inbuf EXCEPT ![t] = a]
    /\ x' = [x EXCEPT ![t] = a]
    /\ i' = [i EXCEPT ![t] = 1]
    /\ prev' = [prev EXCEPT ![t] = None]
    /\ res' = [res EXCEPT ![t] = None]
    /\ UNCHANGED tfms

\* x = getattr(t, meth)(x) for the next child
Step(t) ==
    /\ pc[t] = "loop"
    /\ i[t] <= Len(tfms)
    /\ LET r == Invoke(ChildAt(tfms, i[t]), meth[t], Local(t))
       IN  /\ tfms' = Mutated(tfms, ChildAt(tfms, i[t]), r.self)
           /\ prev' = [prev EXCEPT ![t] = Local(t)]
           /\ IF IsExc(r.ret)
                THEN /\ pc' = [pc EXCEPT ![t] = "raised"]
                     /\ res' = [res EXCEPT ![t] = r.ret]
                     /\ UNCHANGED <<x, i, inbuf>>
                ELSE /\ x' = [x EXCEPT ![t] = r.ret]
                     /\ i' = [i EXCEPT ![t] = i[t] + 1]
                     /\ inbuf' = [inbuf EXCEPT ![t] = Written(inbuf[t], r.ret)]
                     /\ UNCHANGED <<pc, res>>
    /\ UNCHANGED <<meth, arg>>

\* return x
Return(t) ==
    /\ pc[t] = "loop"
    /\ i[t] > Len(tfms)
    /\ pc' = [pc EXCEPT ![t] = "returned"]
    /\ res' = [res EXCEPT ![t] = x[t]]
    /\ UNCHANGED <<tfms, meth, arg, inbuf, x, i, prev>>

\* The caller is done with the result; the thread may call again.
Finish(t) ==
    /\ pc[t] \in {"returned", "raised"}
    /\ pc' = [pc EXCEPT ![t] = "idle"]
    /\ meth' = [meth EXCEPT ![t] = "apply_image"]
    /\ arg' = [arg EXCEPT ![t] = None]
    /\ inbuf' = [inbuf EXCEPT ![t] = None]
    /\ x' = [x EXCEPT ![t] = None]
    /\ i' = [i EXCEPT ![t] = 1]
    /\ prev' = [prev EXCEPT ![t] = None]
    /\ res' = [res EXCEPT ![t] = None]
    /\ UNCHANGED tfms

Next ==
    \E t \in Threads :
        \/ \E m \in ApplyNames : \E a \in ArgsFor(m) : Call(t, m, a)
        \/ Step(t)
        \/ Return(t)
        \/ Finish(t)

Spec == Init /\ [][Next]_vars

-----------------------------------------------------------------------------
(* Properties *)

Ended(t) == pc[t] \in {"returned", "raised"}

\* The child called last by thread t, what it was given and what came back.
LastIdx(t) == IF pc[t] = "raised" THEN i[t] ELSE i[t] - 1

Invoked(t) == pc[t] # "idle" /\ LastIdx(t) >= 1

LastChild(t) == tfms[LastIdx(t)]

\* Cn.apply_m(... C2.apply_m(C1.apply_m(v)) ...), written out by hand
RECURSIVE Manual(_, _, _)
Manual(ts, m, v) ==
    IF ts = <<>> THEN v
    ELSE LET r == Invoke(Head(ts), m, v).ret
         IN  IF IsExc(r) THEN r ELSE Manual(Tail(ts), m, r)

NotSupported(e) ==
    e.kind = "exc" /\ e.type \in {"NotImplementedError", "AttributeError"}

\* A child supports a capability when lookup finds something other than the
\* stubs of the base class.
Supports(t, m) ==
    LET g == GetAttr(t, m)
    IN  g.kind # "exc" /\ ~(g.kind = "method" /\ g.owner = "Transform")

\* C1: a call on the TransformList ends as applying the children by hand, first
\* to last, each on the previous child's output, ends.
C1_Composition ==
    \A t \in Threads :
        Ended(t) => res[t] = Manual(tfms, meth[t], arg[t])

\* A call returned from two children whose order matters.
C1_Witness ==
    \E t \in Threads :
        /\ pc[t] = "returned"
        /\ Len(tfms) = 2
        /\ \A k \in 1..2 : Supports(tfms[k], meth[t])
        /\ res[t] # arg[t]
        /\ res[t] # Manual(<<tfms[2], tfms[1]>>, meth[t], arg[t])

\* C5: a TransformFactory answers a capability of its keyword arguments with
\* the stored callable's result, and fails with a not-supported error, returning
\* nothing, for every other capability.
C5_FactoryCapabilities ==
    \A t \in Threads :
      \A f \in {<<"light", LightKwargs>>, <<"", MaskKwargs>>} :
        (Invoked(t) /\ LastChild(t) = TransformFactory(f[1], f[2])) =>
            IF meth[t] \in DOMAIN f[2]
              THEN pc[t] # "raised" /\ x[t] = CallFn(f[2][meth[t]], prev[t])
              ELSE pc[t] = "raised" /\ NotSupported(res[t])

\* One thread got a stored callable's result from a factory, the other a failure.
C5_Witness ==
    \E t, u \in Threads :
        /\ Invoked(t) /\ LastChild(t).cls = "TransformFactory"
        /\ pc[t] = "returned" /\ meth[t] = "apply_image" /\ res[t] # arg[t]
        /\ Invoked(u) /\ LastChild(u).cls = "TransformFactory"
        /\ pc[u] = "raised" /\ meth[u] \in {"apply_coords", "apply_mask"}

\* The children that are not NoOpTransform, in order.
WithoutNoOps(ts) == SelectSeq(ts, LAMBDA c : c.cls # "NoOpTransform")

\* C6: a NoOpTransform returns the very value it was given for every apply_*
\* name, and a call on the TransformList ends as it would without its
\* NoOpTransform children.
C6_NoOpIdentity ==
    \A t \in Threads :
        /\ (Invoked(t) /\ LastChild(t).cls = "NoOpTransform") =>
              pc[t] # "raised" /\ x[t] = prev[t]
        /\ Ended(t) => res[t] = Manual(WithoutNoOps(tfms), meth[t], arg[t])

\* A NoOpTransform answered apply_mask, and a call returned changed data from
\* a list holding a NoOpTransform.
C6_Witness ==
    /\ \E t \in Threads :
          /\ Invoked(t) /\ LastChild(t).cls = "NoOpTransform"
          /\ meth[t] = "apply_mask" /\ pc[t] = "loop"
    /\ \E u \in Threads :
          /\ pc[u] = "returned" /\ res[u] # arg[u]
          /\ Len(tfms) = 2 /\ tfms[1].cls = "NoOpTransform"

\* A call run alone, after n children were called.
RECURSIVE AloneAfter(_, _, _, _)
AloneAfter(ts, m, a, n) ==
    IF n = 0 THEN [x |-> a, inbuf |-> a, exc |-> None]
    ELSE LET s == AloneAfter(ts, m, a, n - 1)
             r == Invoke(ts[n], m, s.x).ret
         IN  IF IsExc(r) THEN [s EXCEPT !.exc = r]
             ELSE [x |-> r, inbuf |-> Written(s.inbuf, r), exc |-> None]

\* C8: however the threads' calls interleave, each call is at every step where
\* it would be when run alone: same loop value, same caller's array, same
\* failure, same result.
C8_CallsIndependent ==
    \A t \in Threads :
        pc[t] # "idle" =>
            LET s == AloneAfter(tfms, meth[t], arg[t], LastIdx(t))
            IN  /\ x[t] = s.x
                /\ inbuf[t] = s.inbuf
                /\ (pc[t] = "raised") = (s.exc # None)
                /\ pc[t] = "raised" => res[t] = s.exc
                /\ pc[t] = "returned" => res[t] = s.x

\* Both threads are inside _apply, each past a first child that changed its
\* own array, on different arrays.
C8_Witness ==
    /\ pc[1] = "loop" /\ pc[2] = "loop"
    /\ i[1] = 2 /\ i[2] = 2 /\ Len(tfms) = 2
    /\ meth[1] = "apply_coords" /\ meth[2] = "apply_coords"
    /\ arg[1] # arg[2]
    /\ inbuf[1] # arg[1] /\ inbuf[2] # arg[2]

\* C10: no call changes a child (its class, its construction parameters, or
\* any attribute that could hold processed data), nor the child sequence, and
\* two calls with the same capability and argument end the same way whatever
\* calls came before.
C10_Stateless ==
    /\ [][tfms' = tfms]_vars
    /\ [](\A t, u \in Threads :
            (Ended(t) /\ Ended(u) /\ meth[t] = meth[u] /\ arg[t] = arg[u]) =>
                res[t] = res[u] /\ inbuf[t] = inbuf[u])

\* Two calls on the same argument have ended, after children that work on the
\* array in place.
C10_Witness ==
    /\ Ended(1) /\ Ended(2)
    /\ meth[1] = "apply_coords" /\ meth[2] = "apply_coords" /\ arg[1] = arg[2]
    /\ Len(tfms) = 2
    /\ tfms[1].cls = "CropTransform" /\ tfms[2].cls = "ResizeTransform"
    /\ inbuf[1] # arg[1]

\* What an exception carries.
ArgsOf(e) == {e.args[k] : k \in DOMAIN e.args}

\* C2: a call for a capability that some child lacks ends in a not-supported
\* error raised for such a child; the error names that child's class, and the
\* capability is named by the error or by the function that raised it.
C2_FailureNamesChild ==
    \A t \in Threads :
        (Ended(t) /\ \E k \in 1..Len(tfms) : ~Supports(tfms[k], meth[t])) =>
            /\ pc[t] = "raised"
            /\ NotSupported(res[t])
            /\ ~Supports(tfms[i[t]], meth[t])
            /\ tfms[i[t]].cls \in ArgsOf(res[t])
            /\ meth[t] \in ArgsOf(res[t]) \cup {res[t].frame[2]}

\* Pixel positions, and the pixel an image holds at one.
IsPixelOf(p, img) ==
    /\ IsInt(p[1]) /\ IsInt(p[2])
    /\ p[1][1] >= 0 /\ p[1][1] < img.w
    /\ p[2][1] >= 0 /\ p[2][1] < img.h

PixelAt(img, p) == img.px[p[2][1] + 1][p[1][1] + 1]

Pixels(img) == {img.px[r][c] : r \in 1..img.h, c \in 1..img.w}

\* C3: when one CropTransform, FlipTransform or TransposeTransform is applied
\* to an image and to its pixel positions, a transformed point inside the
\* transformed image marks the pixel it marked before, and a point whose pixel
\* was kept lies inside the transformed image.
C3_PointsFollowPixels ==
    \A t, u \in Threads :
        ( /\ pc[t] = "returned" /\ meth[t] = "apply_image"
          /\ pc[u] = "returned" /\ meth[u] = "apply_coords"
          /\ Len(tfms) = 1
          /\ tfms[1].cls \in {"CropTransform", "FlipTransform",
                              "TransposeTransform"} ) =>
            \A k \in 1..Len(arg[u].pts) :
                LET p == arg[u].pts[k]
                    q == res[u].pts[k]
                IN  IsPixelOf(p, arg[t]) =>
                      /\ IsPixelOf(q, res[t]) =>
                            PixelAt(res[t], q) = PixelAt(arg[t], p)
                      /\ PixelAt(arg[t], p) \in Pixels(res[t]) =>
                            IsPixelOf(q, res[t])

\* The region [y0 : y0+h, x0 : x0+w] of a crop leaves the image.
OutOfBounds(c, img) ==
    \/ c.dict.y0 < 0 \/ c.dict.x0 < 0
    \/ c.dict.y0 + c.dict.h > img.h
    \/ c.dict.x0 + c.dict.w > img.w

\* C4: CropTransform.apply_image fails when its region leaves the image, and
\* what it returns has shape (h, w).
C4_CropInBoundsOrError ==
    \A t \in Threads :
        ( /\ Invoked(t) /\ LastChild(t).cls = "CropTransform"
          /\ meth[t] = "apply_image" ) =>
            /\ OutOfBounds(LastChild(t), prev[t]) => pc[t] = "raised"
            /\ pc[t] # "raised" =>
                  <<x[t].h, x[t].w>> = <<LastChild(t).dict.h, LastChild(t).dict.w>>

\* ResizeTransform(h, w, new_h, new_w) followed by ResizeTransform(new_h, new_w, h, w)
IsRoundTrip(ts) ==
    /\ Len(ts) = 2
    /\ ts[1].cls = "ResizeTransform" /\ ts[2].cls = "ResizeTransform"
    /\ <<ts[2].dict.h, ts[2].dict.w>> = <<ts[1].dict.new_h, ts[1].dict.new_w>>
    /\ <<ts[2].dict.new_h, ts[2].dict.new_w>> = <<ts[1].dict.h, ts[1].dict.w>>

\* C7: scaling coordinates by a ResizeTransform and back by its inverse
\* returns every point to its value, whatever the dtype of the array.
C7_ResizeRoundTrip ==
    \A t \in Threads :
        (pc[t] = "returned" /\ meth[t] = "apply_coords" /\ IsRoundTrip(tfms)) =>
            res[t].pts = arg[t].pts

\* C9: a call that fails for a capability a child lacks failed before any
\* child worked on the caller's array: the array is as it was before the call.
C9_FailsBeforeApplying ==
    \A t \in Threads :
        (pc[t] = "raised" /\ ~Supports(tfms[i[t]], meth[t])) =>
            inbuf[t] = arg[t]

====
